---- MODULE Spec2Model ----
(***************************************************************************)
(* Model of core/src/components/name.rs: the Name component storage (a     *)
(* FlaggedStorage that appends a ComponentEvent on every insert, remove    *)
(* and in-place overwrite), the NameTable resource (HashMap<Name, Entity>) *)
(* and the NameTableBookkeeping system whose run() drains the event        *)
(* channel and edits the NameTable.                                        *)
(***************************************************************************)
EXTENDS Integers, Sequences, FiniteSets, TLC

\* ---------------------------------------------------------------- bounds
NumHandles == 3
NumTexts == 2
MaxLog == 3

Entities == 1..NumHandles
TextPool == <<"a", "b", "c", "d", "e", "f">>
Texts == {TextPool[i] : i \in 1..NumTexts}

VARIABLES
    names,        \* ReadStorage<Name>: entity id -> Name, for ids that have one
    channel,      \* names.channel(): every ComponentEvent ever appended
    changes,      \* self.changes: number of channel entries already read
    inserted,     \* self.inserted: BitSet
    removed,      \* self.removed: BitSet
    name_table,   \* NameTable.names: HashMap<Name, Entity>
    warnings,     \* log::warn! lines emitted by the latest run()
    written,      \* (name, entity) writes made by the latest insertion pass
    consumed,     \* channel positions read so far, in reading order
    snapshot,     \* history: the storage as the latest run() saw it
    before,       \* history: the table as the latest run() found it
    associated,   \* history: name -> entity most recently given that name
    observed,     \* history: name -> entity that held it at the latest run() where one did
    collided,     \* history: two entities held one name at the same time
    deleted       \* history: a run() met a removed entity with no current name

vars == <<names, channel, changes, inserted, removed, name_table, warnings,
          written, consumed, snapshot, before, associated, observed, collided,
          deleted>>

\* ------------------------------------------------------- map primitives
EmptyMap == <<>>

Put(f, k, v) == [x \in DOMAIN f \cup {k} |-> IF x = k THEN v ELSE f[x]]

Drop(f, ks) == [x \in DOMAIN f \ ks |-> f[x]]

Range(f) == {f[x] : x \in DOMAIN f}

Holders(store, t) == {h \in DOMAIN store : store[h] = t}

\* Every order in which a join may visit the members of S.
Orders(S) ==
    {o \in [1..Cardinality(S) -> S] : \A i, j \in DOMAIN o : i # j => o[i] # o[j]}

\* ------------------------------------------------------------ NameTable
\* NameTable::get: Option<Entity> as a set of at most one entity.
get(table, name) == IF name \in DOMAIN table THEN {table[name]} ELSE {}

\* NameTable::iter: the (name, entity) pairs, in no particular order.
iter(table) == {<<name, table[name]>> : name \in DOMAIN table}

\* ------------------------------------------------------- ComponentEvent
Event(kind, id) == [kind |-> kind, id |-> id]

\* ------------------------------------------------- NameTableBookkeeping
\* Variant: the reader is ignored and the whole channel is read again.
read_FromStart(chan, reader) == SubSeq(chan, 1, Len(chan))

\* names.channel().read(&mut self.changes): the entries after the reader.
read(chan, reader) == SubSeq(chan, reader + 1, Len(chan))

\* Variant: read() leaves the reader where it was.
advance_Stuck(chan, reader) == reader

\* The reader position after read().
advance(chan, reader) == Len(chan)

\* Variant: read() takes the entries it returns out of the channel.
retain_Drained(chan, reader) == SubSeq(chan, 1, reader)

\* The channel after read(): reading through a ReaderId leaves every entry in place.
retain(chan, reader) == chan

\* Variant: the Modified arm forgets self.inserted.add(*id).
FlagInserted_NoModified(slice) ==
    {slice[i].id : i \in {j \in DOMAIN slice : slice[j].kind = "Inserted"}}

\* Variant: the Inserted arm forgets self.inserted.add(*id).
FlagInserted_NoInserted(slice) ==
    {slice[i].id : i \in {j \in DOMAIN slice : slice[j].kind = "Modified"}}

\* self.inserted after the event loop.
FlagInserted(slice) ==
    {slice[i].id : i \in {j \in DOMAIN slice : slice[j].kind \in {"Inserted", "Modified"}}}

\* Variant: the Modified arm forgets self.removed.add(*id).
FlagRemoved_NoModified(slice) ==
    {slice[i].id : i \in {j \in DOMAIN slice : slice[j].kind = "Removed"}}

\* self.removed after the event loop.
FlagRemoved(slice) ==
    {slice[i].id : i \in {j \in DOMAIN slice : slice[j].kind \in {"Removed", "Modified"}}}

\* Variant: every entry that maps to a flagged entity is erased.
RemovalPass_ByEntity(table, store, rem) ==
    Drop(table, {t \in DOMAIN table : table[t] \in rem})

\* for (name, _) in (&names, &self.removed).join() { names.remove(name) }
RemovalPass(table, store, rem) ==
    Drop(table, {store[h] : h \in rem \cap DOMAIN store})

\* Variant: the Occupied arm overwrites without log::warn!.
InsertEntry_Silent(acc, ent, name) ==
    [names    |-> Put(acc.names, name, ent),
     warnings |-> acc.warnings,
     written  |-> Append(acc.written, <<name, ent>>)]

\* Variant: the Occupied arm warns but keeps the previous entity.
InsertEntry_KeepPrevious(acc, ent, name) ==
    IF name \notin DOMAIN acc.names
    THEN [names    |-> Put(acc.names, name, ent),
          warnings |-> acc.warnings,
          written  |-> Append(acc.written, <<name, ent>>)]
    ELSE [names    |-> acc.names,
          warnings |-> Append(acc.warnings,
                              [ent |-> ent, name |-> name, previous |-> acc.names[name]]),
          written  |-> acc.written]

\* One iteration of the insertion loop: the Entry match.
InsertEntry(acc, ent, name) ==
    IF name \notin DOMAIN acc.names
    THEN [names    |-> Put(acc.names, name, ent),
          warnings |-> acc.warnings,
          written  |-> Append(acc.written, <<name, ent>>)]
    ELSE [names    |-> Put(acc.names, name, ent),
          warnings |-> Append(acc.warnings,
                              [ent |-> ent, name |-> name, previous |-> acc.names[name]]),
          written  |-> Append(acc.written, <<name, ent>>)]

\* Variant: the loop is left at the first collision.
RECURSIVE InsertionLoop_StopOnCollision(_, _, _, _)
InsertionLoop_StopOnCollision(acc, store, order, i) ==
    IF i > Len(order) \/ acc.warnings # <<>> THEN acc
    ELSE InsertionLoop_StopOnCollision(InsertEntry(acc, order[i], store[order[i]]),
                                       store, order, i + 1)

\* for (ent, name, _) in (&entities, &names, &self.inserted).join() { ... }
RECURSIVE InsertionLoop(_, _, _, _)
InsertionLoop(acc, store, order, i) ==
    IF i > Len(order) THEN acc
    ELSE InsertionLoop(InsertEntry(acc, order[i], store[order[i]]), store, order, i + 1)

InsertionPass(table, store, order) ==
    InsertionLoop([names |-> table, warnings |-> <<>>, written |-> <<>>], store, order, 1)

\* ----------------------------------------------------------------- Init
Init ==
    /\ names = EmptyMap
    /\ channel = <<>>
    /\ changes = 0
    /\ inserted = {}
    /\ removed = {}
    /\ name_table = EmptyMap
    /\ warnings = <<>>
    /\ written = <<>>
    /\ consumed = <<>>
    /\ snapshot = EmptyMap
    /\ before = EmptyMap
    /\ associated = EmptyMap
    /\ observed = EmptyMap
    /\ collided = FALSE
    /\ deleted = FALSE

\* -------------------------------------------- storage writes (callers)
SystemUnchanged ==
    UNCHANGED <<changes, inserted, removed, name_table, warnings, written,
                consumed, snapshot, before, observed, deleted>>

\* WriteStorage::insert for an entity that has no Name.
Insert(h, t) ==
    /\ Len(channel) < MaxLog
    /\ h \notin DOMAIN names
    /\ names' = Put(names, h, t)
    /\ channel' = Append(channel, Event("Inserted", h))
    /\ associated' = Put(associated, t, h)
    /\ collided' = (collided \/ Holders(names, t) \ {h} # {})
    /\ SystemUnchanged

\* WriteStorage::get_mut / insert over an existing Name: in-place overwrite.
Modify(h, t) ==
    /\ Len(channel) < MaxLog
    /\ h \in DOMAIN names
    /\ names' = Put(names, h, t)
    /\ channel' = Append(channel, Event("Modified", h))
    /\ associated' = Put(associated, t, h)
    /\ collided' = (collided \/ Holders(names, t) \ {h} # {})
    /\ SystemUnchanged

\* WriteStorage::remove for an entity that has a Name.
Remove(h) ==
    /\ Len(channel) < MaxLog
    /\ h \in DOMAIN names
    /\ names' = Drop(names, {h})
    /\ channel' = Append(channel, Event("Removed", h))
    /\ UNCHANGED <<associated, collided>>
    /\ SystemUnchanged

\* ------------------------------------------- NameTableBookkeeping::run
Observe(obs, store) ==
    [t \in DOMAIN obs \cup Range(store) |->
        IF Holders(store, t) # {} THEN CHOOSE h \in Holders(store, t) : TRUE ELSE obs[t]]

Run ==
    LET slice == read(channel, changes)
        ins   == FlagInserted(slice)
        rem   == FlagRemoved(slice)
        swept == RemovalPass(name_table, names, rem)
    IN  \E order \in Orders(ins \cap DOMAIN names) :
          LET result == InsertionPass(swept, names, order)
          IN  /\ changes' = advance(channel, changes)
              /\ channel' = retain(channel, changes)
              /\ inserted' = ins
              /\ removed' = rem
              /\ name_table' = result.names
              /\ warnings' = result.warnings
              /\ written' = result.written
              /\ consumed' = consumed \o [i \in 1..Len(slice) |-> changes + i]
              /\ snapshot' = names
              /\ before' = name_table
              /\ observed' = Observe(observed, names)
              /\ deleted' = (deleted \/ rem \ DOMAIN names # {})
              /\ UNCHANGED <<names, associated, collided>>

Next ==
    \/ \E h \in Entities, t \in Texts : Insert(h, t)
    \/ \E h \in Entities, t \in Texts : Modify(h, t)
    \/ \E h \in Entities : Remove(h)
    \/ Run

Spec == Init /\ [][Next]_vars

TypeOK ==
    /\ DOMAIN names \subseteq Entities
    /\ Range(names) \subseteq Texts
    /\ DOMAIN name_table \subseteq Texts
    /\ Range(name_table) \subseteq Entities
    /\ changes \in 0..Len(channel)
    /\ inserted \subseteq Entities
    /\ removed \subseteq Entities

\* ============================================================== claims
\* A transition made by run(): the storage writes all append to the channel.
Ran == channel' = channel

\* The events run() is about to read.
Pending == read(channel, changes)

\* Nothing is waiting to be read: the table is as the latest run() left it.
Settled == changes = Len(channel)

Distinct(store) == \A t \in Texts : Cardinality(Holders(store, t)) <= 1

Valid(table, store) ==
    \A t \in DOMAIN table : table[t] \in DOMAIN store /\ store[table[t]] = t

\* C1 - rename-as-modify: when the table maps a to h, h's name is overwritten
\* from a to b by a single Modified event and no other entity holds a or b,
\* the next run() leaves get(a) = none and get(b) = h.
C1_RenameAsModify ==
    [][\A h \in Entities, a, b \in Texts :
         ( /\ Ran
           /\ Pending = <<Event("Modified", h)>>
           /\ get(name_table, a) = {h}
           /\ get(snapshot, h) = {a}
           /\ get(names, h) = {b}
           /\ a # b
           /\ Holders(names, a) = {}
           /\ Holders(names, b) = {h} )
         => (get(name_table', a) = {} /\ get(name_table', b) = {h})]_vars

C3_IntendedInvariant ==
    (Settled /\ ~deleted) => Valid(name_table, names)

\* C4 - insert-only exactness: from an empty table, after entities with
\* pairwise distinct names are inserted and run() runs, get(name) is the
\* owner of every inserted name and iter() is exactly the storage's pairs.
C4_InsertOnlyExact ==
    [][( /\ Ran
         /\ DOMAIN name_table = {}
         /\ Pending # <<>>
         /\ \A i \in DOMAIN Pending : Pending[i].kind = "Inserted"
         /\ Distinct(names) )
       => ( /\ \A h \in DOMAIN names : get(name_table', names[h]) = {h}
            /\ iter(name_table') = {<<names[h], h>> : h \in DOMAIN names} )]_vars

C4_Witness ==
    /\ Settled
    /\ Len(channel) = 2
    /\ \A i \in DOMAIN channel : channel[i].kind = "Inserted"
    /\ inserted = DOMAIN names
    /\ Cardinality(DOMAIN names) = 2
    /\ Distinct(names)
    /\ iter(name_table) = {<<names[h], h>> : h \in DOMAIN names}

WarningsFor(log, x) == {i \in DOMAIN log : log[i].name = x}

\* C5 - collision resolution: when two distinct entities h1, h2 are both
\* flagged inserted with the same name x, x being unmapped before, then after
\* run() get(x) is one of h1, h2 and exactly one warning was emitted for x
\* (and no other warning when h1, h2 are the only entities written).
C5_CollisionResolution ==
    [][\A h1, h2 \in Entities, x \in Texts :
         ( /\ Ran
           /\ h1 # h2
           /\ x \notin DOMAIN name_table
           /\ Holders(names, x) = {h1, h2}
           /\ \A h \in {h1, h2} :
                \E i \in DOMAIN Pending : Pending[i] = Event("Inserted", h) )
         => ( /\ get(name_table', x) # {}
              /\ get(name_table', x) \subseteq {h1, h2}
              /\ Cardinality(WarningsFor(warnings', x)) = 1
              /\ \A i \in WarningsFor(warnings', x) :
                   {warnings'[i].ent, warnings'[i].previous} = {h1, h2}
              /\ (Range(names) = {x} => Len(warnings') = 1) )]_vars

C5_Witness ==
    /\ Settled
    /\ Len(channel) = 2
    /\ \A i \in DOMAIN channel : channel[i].kind = "Inserted"
    /\ Cardinality(DOMAIN names) = 2
    /\ inserted = DOMAIN names
    /\ Cardinality(Range(names)) = 1
    /\ Len(warnings) = 1
    /\ Range(name_table) \subseteq DOMAIN names
    /\ DOMAIN name_table = Range(names)

\* The entities whose current name the insertion pass of the coming run() writes.
Writers(x) == FlagInserted(Pending) \cap Holders(names, x)

\* C6 - true-deletion gap: when the table maps x to h and h has lost its name
\* with no re-insertion, run() leaves get(x) = h, in that run() and in every
\* later one in which no entity writes x.
C6_TrueDeletionGap ==
    [][\A h \in Entities, x \in Texts :
         ( /\ Ran
           /\ get(name_table, x) = {h}
           /\ h \notin DOMAIN names
           /\ Writers(x) = {} )
         => get(name_table', x) = {h}]_vars

C6_Witness ==
    /\ Settled
    /\ \E h \in removed \ inserted, x \in Texts :
         /\ h \notin DOMAIN names
         /\ get(name_table, x) = {h}
         /\ get(associated, x) = {h}
    /\ written = <<>>

\* C7 - idempotent empty step: a run() that reads no new event leaves the
\* table exactly as it was, in every reachable state.
C7_IdempotentEmptyStep ==
    [][(Ran /\ Settled) => name_table' = name_table]_vars

C7_Witness ==
    /\ Settled
    /\ changes > 0
    /\ inserted = {}
    /\ removed = {}
    /\ ~Valid(name_table, names)
    /\ collided

Upto(n) == [i \in 1..n |-> i]

\* C8 - exactly-once consumption: every channel entry is read by exactly one
\* run(), the first one after it is appended; entries are read in append
\* order and the reader never moves backwards.
C8_ExactlyOnce ==
    /\ [](consumed = Upto(changes))
    /\ [][changes' >= changes /\ (Ran => changes' = Len(channel))]_vars

C8_Witness ==
    /\ Settled
    /\ consumed = Upto(MaxLog)
    /\ \E i \in DOMAIN channel : channel[i].id \notin inserted \cup removed
    /\ inserted \cup removed # {}

WritesOf(log, h) == {i \in DOMAIN log : log[i][2] = h}

\* C9 - same-step collapse: whatever events an entity h received since the
\* last run(), the insertion pass writes at most one entry for h, keyed by
\* h's current name v; afterwards get(v) is h or another entity flagged
\* inserted in this run() whose current name is v; and every key of the table
\* was some entity's current name when a run() ran.
C9_SameStepCollapse ==
    [][Ran =>
         /\ \A h \in Entities :
              /\ Cardinality(WritesOf(written', h)) <= 1
              /\ \A i \in WritesOf(written', h) : get(names, h) = {written'[i][1]}
         /\ \A h \in FlagInserted(Pending) \cap DOMAIN names :
              /\ Cardinality(WritesOf(written', h)) = 1
              /\ get(name_table', names[h]) # {}
              /\ get(name_table', names[h]) \subseteq Writers(names[h])
         /\ DOMAIN name_table' \subseteq DOMAIN observed']_vars

C9_Witness ==
    /\ Settled
    /\ Len(channel) >= 3
    /\ \E h \in Entities :
         /\ \A i \in DOMAIN channel : channel[i].id = h
         /\ h \in inserted \cap removed
         /\ written = <<<<names[h], h>>>>
         /\ iter(name_table) = {<<names[h], h>>}
    /\ DOMAIN associated # DOMAIN name_table

\* C10 - collisions are always logged: when the table maps k to a live
\* entity hp (its current name is k) and a different entity h whose current
\* name is k is flagged inserted, run() emits a collision warning for k.
C10_CollisionsLogged ==
    [][\A h, hp \in Entities, k \in Texts :
         ( /\ Ran
           /\ h # hp
           /\ get(name_table, k) = {hp}
           /\ get(names, hp) = {k}
           /\ h \in Writers(k) )
         => WarningsFor(warnings', k) # {}]_vars

\* C11 - a collision warning is emitted only when the key being written
\* already maps to an entity different from the incoming one: every warning
\* of a run() names a previous entity other than the entity being written.
C11_WarnOnlyOnDifferent ==
    [][Ran => \A i \in DOMAIN warnings' : warnings'[i].previous # warnings'[i].ent]_vars

\* C12 - every collision warning is a real name collision: whenever run()
\* warns about the key k, two distinct entities both have the current name k.
C12_WarningsAreCollisions ==
    [][Ran => \A i \in DOMAIN warnings' :
                Cardinality(Holders(names, warnings'[i].name)) >= 2]_vars

\* A transition in which the system's own state moved: the reader, a working
\* set or the warning log.
Stepped ==
    changes' # changes \/ inserted' # inserted \/ removed' # removed \/ warnings' # warnings

\* C13 - frame: run() changes only the table, the warning log, the reader and
\* the working sets, never the storage or the channel; and as long as no
\* run() happens, get and iter keep returning what they returned before.
C13_Frame ==
    [][ /\ Stepped => (names' = names /\ channel' = channel)
        /\ ~Stepped => ( /\ \A t \in Texts : get(name_table', t) = get(name_table, t)
                         /\ iter(name_table') = iter(name_table) ) ]_vars

C13_Witness ==
    /\ Settled
    /\ Len(channel) = MaxLog
    /\ snapshot = names
    /\ before # name_table
    /\ warnings # <<>>
    /\ inserted # {}

\* C14 - event classification: after run() has read its slice, an entity is
\* in self.inserted iff the slice holds an Inserted or Modified event for it
\* and in self.removed iff the slice holds a Removed or Modified event for
\* it; nothing flagged by an earlier run() carries over.
C14_Classification ==
    [][Ran =>
         \A h \in Entities :
           /\ h \in inserted' <=>
                \E i \in DOMAIN Pending :
                  Pending[i].id = h /\ Pending[i].kind \in {"Inserted", "Modified"}
           /\ h \in removed' <=>
                \E i \in DOMAIN Pending :
                  Pending[i].id = h /\ Pending[i].kind \in {"Removed", "Modified"}]_vars

C14_Witness ==
    /\ Settled
    /\ Len(channel) > 0
    /\ channel[Len(channel)].kind = "Modified"
    /\ inserted = {channel[Len(channel)].id}
    /\ removed = inserted
    /\ \E i \in DOMAIN channel :
         channel[i].kind = "Inserted" /\ channel[i].id \notin inserted

WritesTo(log, k) == {i \in DOMAIN log : log[i][1] = k}

\* C15 - eviction by key text alone: for every entity h flagged removed whose
\* current name is k, the removal pass erases the entry keyed by k whichever
\* entity it maps to, so the first write of k in the insertion pass finds the
\* key vacant and the occupant afterwards is one of the entities written
\* under k in this run().
C15_EvictionByText ==
    [][\A h \in Entities, k \in Texts :
         ( /\ Ran
           /\ h \in FlagRemoved(Pending)
           /\ get(names, h) = {k} )
         => ( /\ k \notin DOMAIN RemovalPass(name_table, names, FlagRemoved(Pending))
              /\ Cardinality(WarningsFor(warnings', k)) + 1
                   = Cardinality(WritesTo(written', k))
              /\ get(name_table', k) # {}
              /\ get(name_table', k) \subseteq Writers(k) )]_vars

\* The mapping k -> h2 of an entity that still holds k was erased because a
\* different entity h1 holding k was flagged removed.
C15_Witness ==
    /\ Settled
    /\ \E h1, h2 \in Entities, k \in Texts :
         /\ h1 # h2
         /\ get(before, k) = {h2}
         /\ get(names, h2) = {k}
         /\ h2 \notin inserted \cup removed
         /\ h1 \in removed
         /\ get(names, h1) = {k}
         /\ get(name_table, k) = {h1}
         /\ warnings = <<>>

\* C16 - a collision does not cut run() short: in a run() that meets one or
\* more collisions every entity flagged inserted that has a current name is
\* still written, and the reader has consumed the whole slice.
C16_CollisionDoesNotAbort ==
    [][(Ran /\ warnings' # <<>>) =>
         /\ \A h \in FlagInserted(Pending) \cap DOMAIN names :
              /\ \E i \in DOMAIN written' : written'[i] = <<names[h], h>>
              /\ names[h] \in DOMAIN name_table'
         /\ changes' = Len(channel)
         /\ consumed' = Upto(Len(channel))]_vars

C16_Witness ==
    /\ Settled
    /\ Len(warnings) = 1
    /\ Len(written) = 3
    /\ written[1][1] = warnings[1].name
    /\ written[2][1] = warnings[1].name
    /\ written[3][1] # warnings[1].name
    /\ get(name_table, written[3][1]) = {written[3][2]}

\* C17 - keys never leave the table: every entity the removal pass acts on
\* (flagged removed and still holding a name) is also flagged inserted, every
\* key the removal pass erases is written again by the insertion pass of the
\* same run(), and so the key set of the table only grows.
C17_KeysNeverLeave ==
    [][ /\ Ran =>
             /\ FlagRemoved(Pending) \cap DOMAIN names \subseteq FlagInserted(Pending)
             /\ \A k \in DOMAIN name_table :
                  k \notin DOMAIN RemovalPass(name_table, names, FlagRemoved(Pending))
                    => WritesTo(written', k) # {}
        /\ DOMAIN name_table \subseteq DOMAIN name_table' ]_vars

C17_Witness ==
    /\ Settled
    /\ \E h \in removed \cap DOMAIN names :
         /\ names[h] \in DOMAIN before
         /\ WritesTo(written, names[h]) # {}
         /\ names[h] \in DOMAIN name_table
    /\ DOMAIN before \subseteq DOMAIN name_table

\* The channel entries after the reader position.
Unread == SubSeq(channel, changes + 1, Len(channel))

\* The unread entries that are not about h.
Without(h) == LET Other(e) == e.id # h IN SelectSeq(Unread, Other)

\* The tables run() can produce from the slice s.
TablesFrom(s) ==
    {InsertionPass(RemovalPass(name_table, names, FlagRemoved(s)), names, order).names :
        order \in Orders(FlagInserted(s) \cap DOMAIN names)}

\* An entity that had no name at the latest run(), has none now, and has
\* unread events: it was given a name and lost it again since that run().
Transient(h) ==
    /\ h \notin DOMAIN snapshot
    /\ h \notin DOMAIN names
    /\ \E i \in DOMAIN Unread : Unread[i].id = h

\* C18 - insert-then-delete between two runs: an entity h that receives a
\* name and loses it again before run() is flagged both inserted and removed
\* but has no current name, so run() writes nothing for h, the table is what
\* it would be had h's events never occurred, and the name h briefly held
\* does not become a key.
C18_InsertThenDelete ==
    [][\A h \in Entities :
         (Ran /\ Transient(h)) =>
           /\ h \in inserted' \cap removed'
           /\ WritesOf(written', h) = {}
           /\ name_table' \in TablesFrom(Without(h))
           /\ Without(h) = <<>> =>
                (name_table' = name_table /\ warnings' = <<>> /\ written' = <<>>)
           /\ DOMAIN name_table' \subseteq
                DOMAIN name_table \cup {names[w] : w \in DOMAIN names \ {h}}
           /\ \A t \in Texts : get(name_table', t) = {h} => get(name_table, t) = {h}]_vars

C18_Witness ==
    /\ Settled
    /\ name_table = before
    /\ name_table # EmptyMap
    /\ written = <<>>
    /\ \E h \in inserted \cap removed, t \in Texts :
         /\ h \notin DOMAIN names
         /\ get(associated, t) = {h}
         /\ t \notin DOMAIN name_table
====
